---- MODULE Spec2Model ----
(***************************************************************************)
(* A model of the content-extraction pipeline of n-api:                    *)
(*   src/src/services/content_extractor.rs  (ContentExtractor)             *)
(*   src/src/services/storage_service.rs    (StorageService)               *)
(*                                                                         *)
(* Strings are sequences of atoms.  An atom is a TLA+ string standing for  *)
(* a piece of text without inner structure for the code: it holds no '/',  *)
(* no space, no quote, and an extension such as ".png" is one atom.  The   *)
(* code's string operations (rsplit('/'), replace(' ', "_"),               *)
(* to_lowercase, ends_with, contains, format!) are computed on these       *)
(* sequences.                                                              *)
(*                                                                         *)
(* A markup string is a sequence of tokens, each a record [attr, q, path]: *)
(* an attribute token stands for  attr=q path q  with attr "src" or        *)
(* "xlink:href" and q the quote character; a text token (attr "text")      *)
(* stands for text that holds no such attribute.                           *)
(*                                                                         *)
(* Archive member names are taken to be distinct.  The wall clock only     *)
(* advances while an upload is awaited; what it reads between two uploads  *)
(* is any value not before the last one.                                   *)
(***************************************************************************)
EXTENDS Integers, Sequences, FiniteSets, TLC

\* ------------------------------------------------------------------ bounds

\* The longest archive (number of members) an input blob holds.
MaxMembers == 4

\* The largest value the wall clock (milliseconds) reaches.
MaxClock == 2

\* The longest markup string (in tokens) replace_image_urls is run on alone.
MaxMarkup == 2

\* The longest archive among the archives with unreadable members.
MaxReadMembers == 3

\* The longest archive among the archives with several chapters.
MaxChapterMembers == 5

\* The longest document.xml (in tokens) with image anchors.
MaxBlipXml == 4

\* The longest document.xml (in tokens) docx_xml_to_html is run on alone.
MaxXml == 5

\* ----------------------------------------------------------------- strings

\* str::to_lowercase on one atom
LowerAtom(a) ==
  CASE a = ".PNG" -> ".png"
    [] a = "TOC" -> "toc"
    [] a = "META-INF" -> "meta-inf"
    [] a = "[Content_Types].xml" -> "[content_types].xml"
    [] OTHER -> a

\* str::to_lowercase
to_lowercase(s) == [k \in 1..Len(s) |-> LowerAtom(s[k])]

\* str::ends_with
ends_with(s, suf) ==
  /\ Len(suf) <= Len(s)
  /\ SubSeq(s, Len(s) - Len(suf) + 1, Len(s)) = suf

\* str::starts_with
starts_with(s, pre) ==
  /\ Len(pre) <= Len(s)
  /\ SubSeq(s, 1, Len(pre)) = pre

\* str::contains
contains(s, sub) ==
  \E k \in 0..(Len(s) - Len(sub)) : SubSeq(s, k + 1, k + Len(sub)) = sub

\* path.rsplit('/').next().unwrap_or(path): the text after the last '/'
Basename(path) ==
  LET S == {k \in 1..Len(path) : path[k] = "/"}
      last == IF S = {} THEN 0 ELSE CHOOSE k \in S : \A j \in S : j <= k
  IN SubSeq(path, last + 1, Len(path))

\* basename.replace(' ', "_")
ReplaceSpaces(s) == [k \in 1..Len(s) |-> IF s[k] = " " THEN "_" ELSE s[k]]

\* ContentExtractor::sanitize_filename with the clock reading ts
sanitize_filename(path, ts) ==
  <<ToString(ts), "_">> \o ReplaceSpaces(Basename(path))

\* ContentExtractor::is_image_file
is_image_file(name) ==
  LET lower == to_lowercase(name)
  IN \/ ends_with(lower, <<".jpg">>)
     \/ ends_with(lower, <<".jpeg">>)
     \/ ends_with(lower, <<".png">>)
     \/ ends_with(lower, <<".gif">>)
     \/ ends_with(lower, <<".webp">>)
     \/ ends_with(lower, <<".svg">>)

\* ContentExtractor::is_content_file
is_content_file(name) ==
  LET lower == to_lowercase(name)
  IN /\ \/ ends_with(lower, <<".html">>)
        \/ ends_with(lower, <<".xhtml">>)
        \/ ends_with(lower, <<".htm">>)
     /\ ~contains(lower, <<"toc">>)
     /\ ~contains(lower, <<"nav">>)

\* mime_guess::from_path(name).first_or_octet_stream(): by extension
mime_guess(name) ==
  LET lower == to_lowercase(name)
  IN CASE ends_with(lower, <<".png">>) -> "image/png"
       [] ends_with(lower, <<".jpg">>) -> "image/jpeg"
       [] ends_with(lower, <<".jpeg">>) -> "image/jpeg"
       [] ends_with(lower, <<".gif">>) -> "image/gif"
       [] ends_with(lower, <<".webp">>) -> "image/webp"
       [] ends_with(lower, <<".svg">>) -> "image/svg+xml"
       [] OTHER -> "application/octet-stream"

\* ----------------------------------------------------------------- storage

\* config.cdn_url.trim_end_matches('/')
CdnBase == <<"https://cdn">>

\* The key without the book_id segment
StorageKeyFlat(folder, book_id, filename) ==
  folder \o <<"/">> \o filename

\* StorageService::upload_image: the key {folder}/{book_id}/{filename}
StorageKey(folder, book_id, filename) ==
  folder \o <<"/">> \o book_id \o <<"/">> \o filename

\* StorageService::get_public_url
get_public_url(key) == CdnBase \o <<"/">> \o key

\* ------------------------------------------------------------------ markup

\* A text token of a markup string
Text(a) == [attr |-> "text", q |-> "", path |-> <<a>>]

\* An attribute token  attr=q path q
Ref(attr, q, path) == [attr |-> attr, q |-> q, path |-> path]

\* A match of the regex  attr=["']([^"']+)["']  (the value is not empty)
IsMatch(tok, attr) == tok.attr = attr /\ Len(tok.path) > 0

\* Regex::captures_iter(content): the matches of the pattern, left to right
captures_iter(content, attr) ==
  SelectSeq(content, LAMBDA tok : IsMatch(tok, attr))

\* The lookup falling back to some entry of the map when both keys miss
MapLookupAny(url_map, original) ==
  IF original \in DOMAIN url_map THEN <<url_map[original]>>
  ELSE IF Basename(original) \in DOMAIN url_map
       THEN <<url_map[Basename(original)]>>
       ELSE IF DOMAIN url_map # {}
            THEN <<url_map[CHOOSE k \in DOMAIN url_map : TRUE]>>
            ELSE <<>>

\* url_map.get(original).or_else(|| url_map.get(basename)); <<>> stands for None
MapLookup(url_map, original) ==
  IF original \in DOMAIN url_map THEN <<url_map[original]>>
  ELSE IF Basename(original) \in DOMAIN url_map
       THEN <<url_map[Basename(original)]>>
       ELSE <<>>

\* String::replace(from, to): every occurrence of the matched text
StrReplace(result, from, to) ==
  [k \in 1..Len(result) |-> IF result[k] = from THEN to ELSE result[k]]

\* ReplacePass with a slip: a matched reference that does not resolve is
\* written back with double quotes
RECURSIVE ReplacePassRequoting(_, _, _, _)
ReplacePassRequoting(result, caps, attr, url_map) ==
  IF caps = <<>> THEN result
  ELSE LET cap == Head(caps)
           found == MapLookup(url_map, cap.path)
           next == StrReplace(result, cap,
                     Ref(attr, "dq", IF found # <<>> THEN found[1] ELSE cap.path))
       IN ReplacePassRequoting(next, Tail(caps), attr, url_map)

\* One pass of replace_image_urls: the loop over the captures of one pattern
RECURSIVE ReplacePass(_, _, _, _)
ReplacePass(result, caps, attr, url_map) ==
  IF caps = <<>> THEN result
  ELSE LET cap == Head(caps)
           found == MapLookup(url_map, cap.path)
           next == IF found # <<>>
                   THEN StrReplace(result, cap, Ref(attr, "dq", found[1]))
                   ELSE result
       IN ReplacePass(next, Tail(caps), attr, url_map)

\* ContentExtractor::replace_image_urls
replace_image_urls(content, url_map) ==
  LET after_src == ReplacePass(content, captures_iter(content, "src"),
                               "src", url_map)
  IN ReplacePass(after_src, captures_iter(content, "xlink:href"),
                 "xlink:href", url_map)

\* -------------------------------------------------------------------- DOCX

\* A token of word/document.xml: t is the element, v its text or id
Xml(t, v) == [t |-> t, v |-> v]

\* <w:p[^>]*> : the opening of the paragraph pattern (it also matches <w:pPr>)
IsParaOpen(tok) == tok.t \in {"w:p", "w:pPr"}

\* (.*?)</w:p> : the first closing tag after position k with no line break
\* before it ('.' matches no line break); 0 when there is none
ParaEnd(xml, k) ==
  LET C == {j \in (k + 1)..Len(xml) :
              /\ xml[j].t = "/w:p"
              /\ \A m \in (k + 1)..(j - 1) : xml[m].t # "nl"}
  IN IF C = {} THEN 0 ELSE CHOOSE j \in C : \A m \in C : j <= m

\* para_re.captures_iter(xml): the paragraph contents, left to right
RECURSIVE para_captures(_, _)
para_captures(xml, pos) ==
  LET S == {k \in pos..Len(xml) : IsParaOpen(xml[k]) /\ ParaEnd(xml, k) # 0}
  IN IF S = {} THEN <<>>
     ELSE LET k == CHOOSE x \in S : \A y \in S : x <= y
              j == ParaEnd(xml, k)
          IN <<SubSeq(xml, k + 1, j - 1)>> \o para_captures(xml, j + 1)

\* The texts of a sequence of text tokens, as markup text tokens
RECURSIVE TextOf(_)
TextOf(toks) ==
  IF toks = <<>> THEN <<>>
  ELSE [k \in 1..Len(Head(toks).v) |-> Text(Head(toks).v[k])]
       \o TextOf(Tail(toks))

\* path.contains(rel_id) || rel_id.contains(path.rsplit('/').next())
BlipMatches(path, rel_id) ==
  contains(path, rel_id) \/ contains(rel_id, Basename(path))

\* The loop over the map without its break: an <img> for every matching key
RECURSIVE BlipImgAll(_, _, _)
BlipImgAll(rel_id, order, image_url_map) ==
  IF order = <<>> THEN <<>>
  ELSE (IF BlipMatches(Head(order), rel_id)
        THEN <<Text("<img"), Ref("src", "dq", image_url_map[Head(order)]),
               Text("alt=image/>")>>
        ELSE <<>>)
       \o BlipImgAll(rel_id, Tail(order), image_url_map)

\* for (path, url) in image_url_map { if ... { push; break } } with the map
\* iterated in the order  order
RECURSIVE BlipImg(_, _, _)
BlipImg(rel_id, order, image_url_map) ==
  IF order = <<>> THEN <<>>
  ELSE IF BlipMatches(Head(order), rel_id)
       THEN <<Text("<img"), Ref("src", "dq", image_url_map[Head(order)]),
              Text("alt=image/>")>>
       ELSE BlipImg(rel_id, Tail(order), image_url_map)

RECURSIVE BlipImgs(_, _, _)
BlipImgs(blips, order, image_url_map) ==
  IF blips = <<>> THEN <<>>
  ELSE BlipImg(Head(blips).v, order, image_url_map)
       \o BlipImgs(Tail(blips), order, image_url_map)

\* The paragraph loop wrapping an empty paragraph per its flags as well
ParaHtmlWrapEmpty(para_content, order, image_url_map) ==
  LET is_bold == \E k \in 1..Len(para_content) : para_content[k].t = "w:b/"
      is_italic == \E k \in 1..Len(para_content) : para_content[k].t = "w:i/"
      para_html ==
        TextOf(SelectSeq(para_content, LAMBDA x : x.t = "w:t"))
        \o BlipImgs(SelectSeq(para_content, LAMBDA x : x.t = "a:blip"),
                    order, image_url_map)
  IN IF is_bold /\ is_italic
     THEN <<Text("<p>"), Text("<strong>"), Text("<em>")>> \o para_html
          \o <<Text("</em>"), Text("</strong>"), Text("</p>\n")>>
     ELSE IF is_bold
     THEN <<Text("<p>"), Text("<strong>")>> \o para_html
          \o <<Text("</strong>"), Text("</p>\n")>>
     ELSE IF is_italic
     THEN <<Text("<p>"), Text("<em>")>> \o para_html
          \o <<Text("</em>"), Text("</p>\n")>>
     ELSE <<Text("<p>")>> \o para_html \o <<Text("</p>\n")>>

\* The body of the paragraph loop: one paragraph's HTML
ParaHtml(para_content, order, image_url_map) ==
  LET is_bold == \E k \in 1..Len(para_content) : para_content[k].t = "w:b/"
      is_italic == \E k \in 1..Len(para_content) : para_content[k].t = "w:i/"
      para_html ==
        TextOf(SelectSeq(para_content, LAMBDA x : x.t = "w:t"))
        \o BlipImgs(SelectSeq(para_content, LAMBDA x : x.t = "a:blip"),
                    order, image_url_map)
  IN IF para_html # <<>>
     THEN IF is_bold /\ is_italic
          THEN <<Text("<p>"), Text("<strong>"), Text("<em>")>> \o para_html
               \o <<Text("</em>"), Text("</strong>"), Text("</p>\n")>>
          ELSE IF is_bold
          THEN <<Text("<p>"), Text("<strong>")>> \o para_html
               \o <<Text("</strong>"), Text("</p>\n")>>
          ELSE IF is_italic
          THEN <<Text("<p>"), Text("<em>")>> \o para_html
               \o <<Text("</em>"), Text("</p>\n")>>
          ELSE <<Text("<p>")>> \o para_html \o <<Text("</p>\n")>>
     ELSE <<Text("<p>"), Text("</p>\n")>>

RECURSIVE ParasHtml(_, _, _)
ParasHtml(paras, order, image_url_map) ==
  IF paras = <<>> THEN <<>>
  ELSE ParaHtml(Head(paras), order, image_url_map)
       \o ParasHtml(Tail(paras), order, image_url_map)

\* strip_re.replace_all(xml, ""): what is left without the tags
StripTags(xml) ==
  TextOf(SelectSeq(xml, LAMBDA x : x.t \in {"w:t", "raw", "nl"}))

\* The conversion falling back whenever no paragraph has content
docx_xml_to_html_unless_content(xml, image_url_map, order) ==
  LET html == ParasHtml(para_captures(xml, 1), order, image_url_map)
  IN IF \A k \in 1..Len(html) : html[k] \in {Text("<p>"), Text("</p>\n")}
     THEN StripTags(xml) ELSE html

\* ContentExtractor::docx_xml_to_html, the map iterated in the order  order
docx_xml_to_html(xml, image_url_map, order) ==
  LET html == ParasHtml(para_captures(xml, 1), order, image_url_map)
  IN IF html = <<>> THEN StripTags(xml) ELSE html

\* The orders a HashMap with the keys  keys  may be iterated in
RECURSIVE Orders(_)
Orders(keys) ==
  IF keys = {} THEN {<<>>}
  ELSE UNION {{<<k>> \o o : o \in Orders(keys \ {k})} : k \in keys}

\* ------------------------------------------------------------------ inputs

\* A member of a ZIP archive: its name and its decompressed content
Member(name, body) == [name |-> name, body |-> body, bad |-> "none"]

\* A member that cannot be read: by_index and by_name return Err for it
\* (bad "index"), or reading its content returns Err (bad "read")
BadMember(name, body, bad) == [name |-> name, body |-> body, bad |-> bad]

\* The ZIP local-file-header signature PK\x03\x04
ZipMagic == <<80, 75, 3, 4>>

\* The markup of the two content files of the EPUB inputs
Chapter1 ==
  <<Text("<img"), Ref("src", "dq", <<"a", "/", "x", ".png">>),
    Ref("src", "sq", <<"x", ".png">>), Text("/>")>>

Chapter2 ==
  <<Ref("src", "dq", <<"..", "/", "img", "/", "x", ".png">>),
    Ref("src", "dq", <<"none", ".png">>),
    Ref("xlink:href", "dq", <<"b", "/", "x", ".png">>)>>

\* The word/document.xml of the DOCX inputs
DocumentXml ==
  <<Xml("w:p", <<>>), Xml("w:b/", <<>>), Xml("w:t", <<"Hello">>),
    Xml("a:blip", <<"x">>), Xml("/w:p", <<>>),
    Xml("w:p", <<>>), Xml("a:blip", <<"media">>), Xml("/w:p", <<>>),
    Xml("w:p", <<>>), Xml("w:i/", <<>>), Xml("/w:p", <<>>)>>

\* The members the EPUB inputs are built from
EpubPool ==
  { Member(<<"mimetype">>, <<>>),
    Member(<<"a", "/", "x", ".png">>, <<1>>),
    Member(<<"b", "/", "x", ".png">>, <<2, 2>>),
    Member(<<"x", ".png">>, <<3, 3, 3>>),
    Member(<<"c", "/", "x", " ", "y", ".PNG">>, <<4>>),
    Member(<<"ch1", ".xhtml">>, Chapter1),
    Member(<<"ch2", ".html">>, Chapter2) }

\* The members the DOCX inputs are built from
DocxPool ==
  { Member(<<"[Content_Types].xml">>, <<>>),
    Member(<<"word", "/", "document.xml">>, DocumentXml),
    Member(<<"word", "/", "media", "/", "x", ".png">>, <<6>>),
    Member(<<"word", "/", "media", "/", "y", ".png">>, <<7, 7>>),
    Member(<<"media", "/", "x", ".png">>, <<8>>),
    Member(<<"mimetype">>, <<>>) }

\* The archives of at most n members of a pool, no member twice
RECURSIVE ArchivesOf(_, _)
ArchivesOf(pool, n) ==
  IF n = 0 THEN {<<>>}
  ELSE {<<>>} \cup
       UNION {{<<m>> \o a : a \in ArchivesOf(pool \ {m}, n - 1)} : m \in pool}

Archives == ArchivesOf(EpubPool, MaxMembers) \cup ArchivesOf(DocxPool, MaxMembers)

\* A blob of bytes: its first bytes (at most 4 are looked at), whether
\* ZipArchive::new reads a central directory from it, and the members then
Blob(magic, zip, members) == [magic |-> magic, zip |-> zip, members |-> members]

\* The first bytes of the input blobs
Magics == {<<>>, <<80, 75, 3>>, <<80, 75, 5, 6>>, ZipMagic}

\* The input blobs: a blob of fewer than 22 bytes holds no central directory
Blobs ==
  {Blob(g, TRUE, a) : g \in {x \in Magics : Len(x) = 4}, a \in Archives}
  \cup {Blob(g, FALSE, <<>>) : g \in Magics}

\* The asset namespaces the callers pass
BookIds == {<<"bk1">>}

\* ---------------------------------------------------------- detect_format

\* The marker scan looking at the name of every member, returned by
\* by_index or not
RECURSIVE ScanMarkersUnopened(_, _)
ScanMarkersUnopened(members, i) ==
  IF i > Len(members) THEN "Unknown"
  ELSE LET name == to_lowercase(members[i].name)
       IN IF name = <<"mimetype">>
             \/ contains(name, <<"meta-inf", "/", "container.xml">>)
          THEN "Epub"
          ELSE IF contains(name, <<"[content_types].xml">>)
                  \/ contains(name, <<"word", "/", "document.xml">>)
          THEN "Docx"
          ELSE ScanMarkersUnopened(members, i + 1)

\* The marker scan of detect_format over the members from index i on; a
\* member that by_index does not return is passed over
RECURSIVE ScanMarkers(_, _)
ScanMarkers(members, i) ==
  IF i > Len(members) THEN "Unknown"
  ELSE LET name == to_lowercase(members[i].name)
       IN IF members[i].bad = "index"
          THEN ScanMarkers(members, i + 1)
          ELSE IF name = <<"mimetype">>
             \/ contains(name, <<"meta-inf", "/", "container.xml">>)
          THEN "Epub"
          ELSE IF contains(name, <<"[content_types].xml">>)
                  \/ contains(name, <<"word", "/", "document.xml">>)
          THEN "Docx"
          ELSE ScanMarkers(members, i + 1)

\* detect_format with a slip: the signature is not compared
detect_format_unsigned(bytes) ==
  IF Len(bytes.magic) < 4
  THEN [format |-> "Unknown", opened |-> FALSE]
  ELSE IF bytes.zip
  THEN [format |-> ScanMarkers(bytes.members, 1), opened |-> TRUE]
  ELSE [format |-> "Unknown", opened |-> TRUE]

\* ContentExtractor::detect_format: the verdict, and whether the archive
\* was opened (ZipArchive::new called)
detect_format(bytes) ==
  IF Len(bytes.magic) < 4
  THEN [format |-> "Unknown", opened |-> FALSE]
  ELSE IF SubSeq(bytes.magic, 1, 4) # ZipMagic
  THEN [format |-> "Unknown", opened |-> FALSE]
  ELSE IF bytes.zip
  THEN [format |-> ScanMarkers(bytes.members, 1), opened |-> TRUE]
  ELSE [format |-> "Unknown", opened |-> TRUE]

\* ------------------------------------------------------------------- state

\* The extract calls (one task each)
Calls == {1, 2}

VARIABLES
  pc,             \* [call] where the call's task stands
  bytes,          \* [call] the blob passed to extract
  book_id,        \* [call] the asset namespace passed to extract
  format,         \* [call] detect_format's verdict
  opened,         \* [call] how often ZipArchive::new was called
  archive,        \* [call] the members of the open ZipArchive
  idx,            \* [call] the loop index i over the archive
  zipfile,        \* [call] the index of the member whose ZipFile is held, or 0
  pending_images, \* [call] phase 1's output, consumed by phase 2
  image_url_map,  \* [call] path and basename -> CDN URL
  images,         \* [call] the ExtractedImage list
  html_parts,     \* [call] the rewritten content files
  inflight,       \* [call] the upload request awaited, <<>> when none
  result,         \* [call] what extract returned
  cancelled,      \* [call] whether the call's future was dropped
  store,          \* the bucket: key -> object
  store_log,      \* the bucket's requests, in order, with their outcome
  now,            \* the wall clock, in milliseconds
  rw,             \* the state of a run of replace_image_urls on its own
  dx,             \* the state of a run of docx_xml_to_html on its own
  db              \* the rows of the ContentUpload and UploadedImage tables

call_vars ==
  <<pc, bytes, book_id, format, opened, archive, idx, zipfile, pending_images,
    image_url_map, images, html_parts, inflight, result, cancelled>>

vars == <<call_vars, store, store_log, now, rw, dx, db>>

\* AppResult<ExtractedContent>
NoResult ==
  [tag |-> "None", kind |-> "", msg |-> "", html_content |-> <<>>,
   images |-> <<>>]

Ok(html_content, imgs) ==
  [tag |-> "Ok", kind |-> "", msg |-> "", html_content |-> html_content,
   images |-> imgs]

Err(kind, msg) ==
  [tag |-> "Err", kind |-> kind, msg |-> msg, html_content |-> <<>>,
   images |-> <<>>]

\* replace_image_urls not running
RwIdle == [pc |-> "idle", content |-> <<>>, url_map |-> <<>>, once |-> <<>>,
           twice |-> <<>>]

\* The two tables before any request
DbEmpty == [uploads |-> <<>>, images |-> <<>>]

\* docx_xml_to_html not running
DxIdle == [pc |-> "idle", xml |-> <<>>, url_map |-> <<>>, html |-> <<>>]

\* The state after construction, the calls of  active  about to run
InitWith(active, blobs, ids) ==
  /\ pc = [c \in Calls |-> IF c \in active THEN "start" ELSE "idle"]
  /\ \E b \in [active -> blobs] :
       bytes = [c \in Calls |->
                  IF c \in active THEN b[c] ELSE Blob(<<>>, FALSE, <<>>)]
  /\ \E n \in [active -> ids] :
       book_id = [c \in Calls |-> IF c \in active THEN n[c] ELSE <<>>]
  /\ format = [c \in Calls |-> "Unknown"]
  /\ opened = [c \in Calls |-> 0]
  /\ archive = [c \in Calls |-> <<>>]
  /\ idx = [c \in Calls |-> 0]
  /\ zipfile = [c \in Calls |-> 0]
  /\ pending_images = [c \in Calls |-> <<>>]
  /\ image_url_map = [c \in Calls |-> <<>>]
  /\ images = [c \in Calls |-> <<>>]
  /\ html_parts = [c \in Calls |-> <<>>]
  /\ inflight = [c \in Calls |-> <<>>]
  /\ result = [c \in Calls |-> NoResult]
  /\ cancelled = [c \in Calls |-> FALSE]
  /\ store = <<>>
  /\ store_log = <<>>
  /\ now = 1

InitCalls(active) == InitWith(active, Blobs, BookIds)

Init == InitCalls({1}) /\ rw = RwIdle /\ dx = DxIdle /\ db = DbEmpty

\* ----------------------------------------------------------------- extract

\* extract with the Unknown arm running the EPUB pipeline
ExtractUnknownAsEpub(c) ==
  /\ pc[c] = "start"
  /\ LET d == detect_format(bytes[c])
         n == IF d.opened THEN 1 ELSE 0
     IN /\ format' = [format EXCEPT ![c] = d.format]
        /\ IF bytes[c].zip
           THEN /\ archive' = [archive EXCEPT ![c] = bytes[c].members]
                /\ idx' = [idx EXCEPT ![c] = 1]
                /\ pc' = [pc EXCEPT ![c] = "collect"]
                /\ opened' = [opened EXCEPT ![c] = n + 1]
                /\ UNCHANGED result
           ELSE /\ result' = [result EXCEPT ![c] =
                     Err("BadRequest", "Invalid file")]
                /\ pc' = [pc EXCEPT ![c] = "done"]
                /\ opened' = [opened EXCEPT ![c] = n + 1]
                /\ UNCHANGED <<archive, idx>>
  /\ UNCHANGED <<bytes, book_id, zipfile, pending_images, image_url_map,
                 images, html_parts, inflight, store, store_log, now, rw, dx, db,
                 cancelled>>

\* ContentExtractor::extract: detect the format and dispatch; extract_epub
\* and extract_docx begin by opening the archive
Extract(c) ==
  /\ pc[c] = "start"
  /\ LET d == detect_format(bytes[c])
         n == IF d.opened THEN 1 ELSE 0
     IN /\ format' = [format EXCEPT ![c] = d.format]
        /\ IF d.format = "Unknown"
           THEN /\ result' = [result EXCEPT ![c] =
                     Err("BadRequest", "Unsupported file format")]
                /\ pc' = [pc EXCEPT ![c] = "done"]
                /\ opened' = [opened EXCEPT ![c] = n]
                /\ UNCHANGED <<archive, idx>>
           ELSE IF bytes[c].zip
           THEN /\ archive' = [archive EXCEPT ![c] = bytes[c].members]
                /\ idx' = [idx EXCEPT ![c] = 1]
                /\ pc' = [pc EXCEPT ![c] = "collect"]
                /\ opened' = [opened EXCEPT ![c] = n + 1]
                /\ UNCHANGED result
           ELSE /\ result' = [result EXCEPT ![c] =
                     Err("BadRequest", "Invalid file")]
                /\ pc' = [pc EXCEPT ![c] = "done"]
                /\ opened' = [opened EXCEPT ![c] = n + 1]
                /\ UNCHANGED <<archive, idx>>
  /\ UNCHANGED <<bytes, book_id, zipfile, pending_images, image_url_map,
                 images, html_parts, inflight, store, store_log, now, rw, dx, db,
                 cancelled>>

\* Qualifies without the word/media/ restriction of a DOCX
QualifiesAnywhere(fmt, name) == is_image_file(name)

\* Whether phase 1 collects the member: any image of an EPUB, the images
\* under word/media/ of a DOCX
Qualifies(fmt, name) ==
  IF fmt = "Docx"
  THEN starts_with(name, <<"word", "/", "media", "/">>) /\ is_image_file(name)
  ELSE is_image_file(name)

\* The first pass passing over a member that by_index does not return
ByIndexSkipUnreadable(c) ==
  /\ pc[c] = "collect"
  /\ zipfile[c] = 0
  /\ idx[c] <= Len(archive[c])
  /\ IF archive[c][idx[c]].bad = "index"
     THEN /\ idx' = [idx EXCEPT ![c] = @ + 1]
          /\ UNCHANGED zipfile
     ELSE /\ zipfile' = [zipfile EXCEPT ![c] = idx[c]]
          /\ UNCHANGED idx
  /\ UNCHANGED <<pc, archive, result, bytes, book_id, format, opened,
                 pending_images, image_url_map, images, html_parts, inflight,
                 store, store_log, now, rw, dx, db, cancelled>>

\* archive.by_index(i) in the first pass; its Err ends the call
ByIndex(c) ==
  /\ pc[c] = "collect"
  /\ zipfile[c] = 0
  /\ idx[c] <= Len(archive[c])
  /\ IF archive[c][idx[c]].bad = "index"
     THEN /\ result' = [result EXCEPT ![c] =
                          Err("Internal", "Failed to read archive")]
          /\ pc' = [pc EXCEPT ![c] = "done"]
          /\ archive' = [archive EXCEPT ![c] = <<>>]
          /\ UNCHANGED zipfile
     ELSE /\ zipfile' = [zipfile EXCEPT ![c] = idx[c]]
          /\ UNCHANGED <<pc, archive, result>>
  /\ UNCHANGED <<bytes, book_id, format, opened, idx,
                 pending_images, image_url_map, images, html_parts, inflight,
                 store, store_log, now, rw, dx, db, cancelled>>

\* The first pass going to the upload loop with the image just read, the
\* ZipFile still held and the later members not looked at
ReadMemberEager(c) ==
  /\ pc[c] = "collect"
  /\ zipfile[c] # 0
  /\ LET file == archive[c][zipfile[c]]
         name == file.name
     IN IF Qualifies(format[c], name)
        THEN /\ pending_images' = [pending_images EXCEPT ![c] =
                  Append(@, [name |-> name, buffer |-> file.body,
                             content_type |-> mime_guess(name),
                             size |-> Len(file.body)])]
             /\ pc' = [pc EXCEPT ![c] = "upload"]
             /\ UNCHANGED <<zipfile, idx>>
        ELSE /\ zipfile' = [zipfile EXCEPT ![c] = 0]
             /\ idx' = [idx EXCEPT ![c] = @ + 1]
             /\ UNCHANGED <<pc, pending_images>>
  /\ UNCHANGED <<bytes, book_id, format, opened, archive, image_url_map,
                 images, html_parts, inflight, result, store, store_log, now,
                 rw, dx, db, cancelled>>

\* The body of the first pass for the member held: read a qualifying image
\* and push it on pending_images; the ZipFile is dropped. The Err of
\* read_to_end ends the call
ReadMember(c) ==
  /\ pc[c] = "collect"
  /\ zipfile[c] # 0
  /\ LET file == archive[c][zipfile[c]]
         name == file.name
     IN IF Qualifies(format[c], name) /\ file.bad = "read"
        THEN /\ result' = [result EXCEPT ![c] =
                             Err("Internal", "Failed to read image")]
             /\ pc' = [pc EXCEPT ![c] = "done"]
             /\ archive' = [archive EXCEPT ![c] = <<>>]
             /\ UNCHANGED <<pending_images, idx>>
        ELSE /\ pending_images' = [pending_images EXCEPT ![c] =
                  IF Qualifies(format[c], name)
                  THEN Append(@, [name |-> name, buffer |-> file.body,
                                  content_type |-> mime_guess(name),
                                  size |-> Len(file.body)])
                  ELSE @]
             /\ idx' = [idx EXCEPT ![c] = @ + 1]
             /\ UNCHANGED <<pc, archive, result>>
  /\ zipfile' = [zipfile EXCEPT ![c] = 0]
  /\ UNCHANGED <<bytes, book_id, format, opened, image_url_map,
                 images, html_parts, inflight, store, store_log, now,
                 rw, dx, db, cancelled>>

\* The end of the first pass: the archive borrow is released
CollectDone(c) ==
  /\ pc[c] = "collect"
  /\ zipfile[c] = 0
  /\ idx[c] > Len(archive[c])
  /\ pc' = [pc EXCEPT ![c] = "upload"]
  /\ archive' = [archive EXCEPT ![c] = <<>>]
  /\ UNCHANGED <<bytes, book_id, format, opened, idx, zipfile, pending_images,
                 image_url_map, images, html_parts, inflight, result, store,
                 store_log, now, rw, dx, db, cancelled>>

\* MapInsert with a slip: the basename key is not inserted
MapInsertPathOnly(url_map, name, cdn_url) ==
  [k \in DOMAIN url_map \cup {name} |->
     IF k = name THEN cdn_url ELSE url_map[k]]

\* image_url_map.insert(name, url); image_url_map.insert(basename, url)
MapInsert(url_map, name, cdn_url) ==
  LET withName == [k \in DOMAIN url_map \cup {name} |->
                     IF k = name THEN cdn_url ELSE url_map[k]]
      base == Basename(name)
  IN [k \in DOMAIN withName \cup {base} |->
        IF k = base THEN cdn_url ELSE withName[k]]

\* PushImage with a slip: the image is put in front
PushImageFront(imgs, img) == <<img>> \o imgs

\* images.push(ExtractedImage { .. })
PushImage(imgs, img) == Append(imgs, img)

\* The head of the upload loop: sanitize_filename reads the clock, and
\* upload_image sends the put_object request and awaits it
IssueUpload(c) ==
  /\ pc[c] = "upload"
  /\ pending_images[c] # <<>>
  /\ LET p == Head(pending_images[c])
         filename == sanitize_filename(p.name, now)
         key == StorageKey(<<"content-images">>, book_id[c], filename)
     IN inflight' = [inflight EXCEPT ![c] =
          <<[key |-> key, body |-> p.buffer, content_type |-> p.content_type]>>]
  /\ pc' = [pc EXCEPT ![c] = "await"]
  /\ UNCHANGED <<bytes, book_id, format, opened, archive, idx, zipfile,
                 pending_images, image_url_map, images, html_parts, result,
                 store, store_log, now, rw, dx, db, cancelled>>

\* put_object succeeds: upload_bytes returns the public URL, and the loop
\* body records it
UploadOk(c) ==
  /\ pc[c] = "await"
  /\ LET req == inflight[c][1]
         p == Head(pending_images[c])
         cdn_url == get_public_url(req.key)
     IN /\ store' = [k \in DOMAIN store \cup {req.key} |->
                       IF k = req.key
                       THEN [body |-> req.body, content_type |-> req.content_type]
                       ELSE store[k]]
        /\ store_log' = Append(store_log,
             [call |-> c, key |-> req.key, name |-> p.name, ok |-> TRUE,
              size |-> Len(req.body)])
        /\ image_url_map' = [image_url_map EXCEPT ![c] =
             MapInsert(@, p.name, cdn_url)]
        /\ images' = [images EXCEPT ![c] =
             PushImage(@, [original_path |-> p.name, cdn_url |-> cdn_url,
                           content_type |-> p.content_type, size |-> p.size])]
  /\ pending_images' = [pending_images EXCEPT ![c] = Tail(@)]
  /\ inflight' = [inflight EXCEPT ![c] = <<>>]
  /\ pc' = [pc EXCEPT ![c] = "upload"]
  /\ UNCHANGED <<bytes, book_id, format, opened, archive, idx, zipfile,
                 html_parts, result, now, rw, dx, db, cancelled>>

\* UploadErr with a slip: the error is dropped and the loop goes on with
\* the next image
UploadErrSkipped(c) ==
  /\ pc[c] = "await"
  /\ store_log' = Append(store_log,
       [call |-> c, key |-> inflight[c][1].key,
        name |-> Head(pending_images[c]).name, ok |-> FALSE,
        size |-> Len(inflight[c][1].body)])
  /\ pending_images' = [pending_images EXCEPT ![c] = Tail(@)]
  /\ inflight' = [inflight EXCEPT ![c] = <<>>]
  /\ pc' = [pc EXCEPT ![c] = "upload"]
  /\ UNCHANGED <<bytes, book_id, format, opened, archive, idx, zipfile,
                 image_url_map, images, html_parts, result, store, now, rw, dx, db,
                 cancelled>>

\* UploadErr with a retry: the failed image is sent again
UploadErrRetry(c) ==
  /\ pc[c] = "await"
  /\ store_log' = Append(store_log,
       [call |-> c, key |-> inflight[c][1].key,
        name |-> Head(pending_images[c]).name, ok |-> FALSE,
        size |-> Len(inflight[c][1].body)])
  /\ inflight' = [inflight EXCEPT ![c] = <<>>]
  /\ pc' = [pc EXCEPT ![c] = "upload"]
  /\ UNCHANGED <<bytes, book_id, format, opened, archive, idx, zipfile,
                 pending_images, image_url_map, images, html_parts, result,
                 store, now, rw, dx, db, cancelled>>

\* put_object fails: upload_bytes maps the error and the ? operators return
\* it from extract
UploadErr(c) ==
  /\ pc[c] = "await"
  /\ store_log' = Append(store_log,
       [call |-> c, key |-> inflight[c][1].key,
        name |-> Head(pending_images[c]).name, ok |-> FALSE,
        size |-> Len(inflight[c][1].body)])
  /\ result' = [result EXCEPT ![c] = Err("Internal", "R2 upload failed")]
  /\ inflight' = [inflight EXCEPT ![c] = <<>>]
  /\ pc' = [pc EXCEPT ![c] = "done"]
  /\ UNCHANGED <<bytes, book_id, format, opened, archive, idx, zipfile,
                 pending_images, image_url_map, images, html_parts, store,
                 now, rw, dx, db, cancelled>>

\* The end of the upload loop: the archive is opened again for the markup
UploadsDone(c) ==
  /\ pc[c] = "upload"
  /\ pending_images[c] = <<>>
  /\ opened' = [opened EXCEPT ![c] = @ + 1]
  /\ archive' = [archive EXCEPT ![c] = bytes[c].members]
  /\ idx' = [idx EXCEPT ![c] = 1]
  /\ pc' = [pc EXCEPT ![c] = IF format[c] = "Epub" THEN "content" ELSE "document"]
  /\ UNCHANGED <<bytes, book_id, format, zipfile, pending_images,
                 image_url_map, images, html_parts, inflight, result, store,
                 store_log, now, rw, dx, db, cancelled>>

\* The body of the second pass of extract_epub for member i; the Err of
\* by_index or of read_to_string ends the call
ReadContent(c) ==
  /\ pc[c] = "content"
  /\ idx[c] <= Len(archive[c])
  /\ LET file == archive[c][idx[c]]
     IN IF file.bad = "index"
           \/ (is_content_file(file.name) /\ file.bad = "read")
        THEN /\ result' = [result EXCEPT ![c] =
                  IF file.bad = "index"
                  THEN Err("Internal", "Failed to read archive")
                  ELSE Err("Internal", "Failed to read content")]
             /\ pc' = [pc EXCEPT ![c] = "done"]
             /\ archive' = [archive EXCEPT ![c] = <<>>]
             /\ UNCHANGED <<html_parts, idx>>
        ELSE /\ html_parts' = [html_parts EXCEPT ![c] =
                  IF is_content_file(file.name)
                  THEN Append(@, replace_image_urls(file.body,
                                                    image_url_map[c]))
                  ELSE @]
             /\ idx' = [idx EXCEPT ![c] = @ + 1]
             /\ UNCHANGED <<pc, archive, result>>
  /\ UNCHANGED <<bytes, book_id, format, opened, zipfile,
                 pending_images, image_url_map, images, inflight,
                 store, store_log, now, rw, dx, db, cancelled>>

\* A join that also ends the last part with the separator
RECURSIVE JoinTrailing(_)
JoinTrailing(parts) ==
  IF parts = <<>> THEN <<>>
  ELSE parts[1] \o <<Text("\n\n<!-- Chapter Break -->\n\n")>>
       \o JoinTrailing(Tail(parts))

\* html_parts.join("\n\n<!-- Chapter Break -->\n\n")
ChapterBreak == Text("\n\n<!-- Chapter Break -->\n\n")

RECURSIVE Join(_)
Join(parts) ==
  IF parts = <<>> THEN <<>>
  ELSE IF Len(parts) = 1 THEN parts[1]
  ELSE parts[1] \o <<ChapterBreak>> \o Join(Tail(parts))

\* The end of extract_epub
FinishEpub(c) ==
  /\ pc[c] = "content"
  /\ idx[c] > Len(archive[c])
  /\ result' = [result EXCEPT ![c] = Ok(Join(html_parts[c]), images[c])]
  /\ pc' = [pc EXCEPT ![c] = "done"]
  /\ archive' = [archive EXCEPT ![c] = <<>>]
  /\ UNCHANGED <<bytes, book_id, format, opened, idx, zipfile, pending_images,
                 image_url_map, images, html_parts, inflight, store,
                 store_log, now, rw, dx, db, cancelled>>

\* archive.by_name("word/document.xml") and read_to_string, both results
\* ignored: the texts document_xml can hold afterwards. The whole text of a
\* readable member; the empty string when there is no such member or by_name
\* fails; what was decoded before the failure, some prefix of the text, when
\* the read fails
DocumentXmlOf(members) ==
  LET S == {k \in 1..Len(members) :
              members[k].name = <<"word", "/", "document.xml">>}
      file == members[CHOOSE k \in S : TRUE]
  IN IF S = {} THEN {<<>>}
     ELSE IF file.bad = "index" THEN {<<>>}
     ELSE IF file.bad = "read"
          THEN {SubSeq(file.body, 1, n) : n \in 0..Len(file.body)}
     ELSE {file.body}

\* The end of extract_docx: the document is converted, the map iterated in
\* some order
ConvertDocx(c) ==
  /\ pc[c] = "document"
  /\ \E order \in Orders(DOMAIN image_url_map[c]),
        document_xml \in DocumentXmlOf(archive[c]) :
       result' = [result EXCEPT ![c] =
         Ok(docx_xml_to_html(document_xml, image_url_map[c], order),
            images[c])]
  /\ pc' = [pc EXCEPT ![c] = "done"]
  /\ archive' = [archive EXCEPT ![c] = <<>>]
  /\ UNCHANGED <<bytes, book_id, format, opened, idx, zipfile, pending_images,
                 image_url_map, images, html_parts, inflight, store,
                 store_log, now, rw, dx, db, cancelled>>

\* A millisecond passes while an upload is awaited
Tick ==
  /\ now < MaxClock
  /\ \E c \in Calls : pc[c] = "await"
  /\ now' = now + 1
  /\ UNCHANGED <<call_vars, store, store_log, rw, dx, db>>

Next ==
  \/ \E c \in Calls : Extract(c)
  \/ \E c \in Calls : ByIndex(c)
  \/ \E c \in Calls : ReadMember(c)
  \/ \E c \in Calls : CollectDone(c)
  \/ \E c \in Calls : IssueUpload(c)
  \/ \E c \in Calls : UploadOk(c)
  \/ \E c \in Calls : UploadErr(c)
  \/ \E c \in Calls : UploadsDone(c)
  \/ \E c \in Calls : ReadContent(c)
  \/ \E c \in Calls : FinishEpub(c)
  \/ \E c \in Calls : ConvertDocx(c)
  \/ Tick

Spec == Init /\ [][Next]_vars

\* ------------------------------------------- archives with unreadable members

\* The members the archives with unreadable members are built from
ReadPool ==
  { Member(<<"mimetype">>, <<>>),
    BadMember(<<"META-INF", "/", "container.xml">>, <<>>, "index"),
    Member(<<"[Content_Types].xml">>, <<>>),
    BadMember(<<"word", "/", "document.xml">>, DocumentXml, "read"),
    Member(<<"x", ".png">>, <<3, 3, 3>>),
    BadMember(<<"bad", ".png">>, <<9>>, "read"),
    BadMember(<<"ch3", ".xhtml">>, Chapter1, "read"),
    Member(<<"word", "/", "media", "/", "x", ".png">>, <<6>>),
    Member(<<"v", ".svg">>, <<5>>),
    Member(<<"v", ".bmp">>, <<5, 5>>) }

\* The blobs of the archives with unreadable members, and one that begins
\* with the signature and is no archive
ReadBlobs ==
  {Blob(ZipMagic, TRUE, a) : a \in ArchivesOf(ReadPool, MaxReadMembers)}
  \cup {Blob(ZipMagic, FALSE, <<>>)}

InitRead == InitWith({1}, ReadBlobs, BookIds) /\ rw = RwIdle /\ dx = DxIdle /\ db = DbEmpty

SpecRead == InitRead /\ [][Next]_vars

\* ------------------------------------------------------------ cancellation

\* The caller's future dropped with the pipeline left running
CancelDetached(c) ==
  /\ pc[c] = "await"
  /\ ~cancelled[c]
  /\ cancelled' = [cancelled EXCEPT ![c] = TRUE]
  /\ UNCHANGED <<pc, bytes, book_id, format, opened, archive, idx, zipfile,
                 pending_images, image_url_map, images, html_parts, inflight,
                 result, store, store_log, now, rw, dx, db>>

\* The future of extract is dropped at its suspension point, the await of
\* upload_image: nothing after the await runs, no value is returned, and
\* the put_object request under way reaches the bucket or does not
Cancel(c) ==
  /\ pc[c] = "await"
  /\ ~cancelled[c]
  /\ cancelled' = [cancelled EXCEPT ![c] = TRUE]
  /\ pc' = [pc EXCEPT ![c] = "cancelled"]
  /\ inflight' = [inflight EXCEPT ![c] = <<>>]
  /\ \E landed \in BOOLEAN :
       LET req == inflight[c][1]
       IN IF landed
          THEN /\ store' = [k \in DOMAIN store \cup {req.key} |->
                              IF k = req.key
                              THEN [body |-> req.body,
                                    content_type |-> req.content_type]
                              ELSE store[k]]
               /\ store_log' = Append(store_log,
                    [call |-> c, key |-> req.key,
                     name |-> Head(pending_images[c]).name, ok |-> TRUE,
                     size |-> Len(req.body)])
          ELSE UNCHANGED <<store, store_log>>
  /\ UNCHANGED <<bytes, book_id, format, opened, archive, idx, zipfile,
                 pending_images, image_url_map, images, html_parts, result,
                 now, rw, dx, db>>

NextCancel ==
  \/ Next
  \/ \E c \in Calls : Cancel(c)

SpecCancel == InitRead /\ [][NextCancel]_vars

\* ------------------------------------------- archives with several chapters

\* The members the archives with content files and excluded files are built
\* from
ChapterPool ==
  { Member(<<"mimetype">>, <<>>),
    Member(<<"[Content_Types].xml">>, <<>>),
    Member(<<"a", "/", "x", ".png">>, <<1>>),
    Member(<<"ch1", ".xhtml">>, Chapter1),
    Member(<<"ch2", ".html">>, Chapter2),
    Member(<<"TOC", ".html">>, Chapter1),
    Member(<<"nav", "/", "ch3", ".htm">>, Chapter2) }

ChapterBlobs ==
  {Blob(ZipMagic, TRUE, a) : a \in ArchivesOf(ChapterPool, MaxChapterMembers)}

InitChapters ==
  InitWith({1}, ChapterBlobs, BookIds) /\ rw = RwIdle /\ dx = DxIdle /\ db = DbEmpty

SpecChapters == InitChapters /\ [][Next]_vars

\* --------------------------------------------------- two calls interleaved

\* The archives two concurrent requests upload
ConcurrentBlobs ==
  { Blob(ZipMagic, TRUE, << Member(<<"mimetype">>, <<>>),
                            Member(<<"a", "/", "x", ".png">>, <<1>>),
                            Member(<<"ch1", ".xhtml">>, Chapter1) >>),
    Blob(ZipMagic, TRUE, << Member(<<"mimetype">>, <<>>),
                            Member(<<"b", "/", "x", ".png">>, <<2, 2>>),
                            Member(<<"ch2", ".html">>, Chapter2) >>),
    Blob(ZipMagic, TRUE, << Member(<<"[Content_Types].xml">>, <<>>),
                            Member(<<"word", "/", "media", "/", "x", ".png">>,
                                   <<6>>),
                            Member(<<"word", "/", "document.xml">>,
                                   DocumentXml) >>) }

\* The book_id fields of the two requests: the same book, or two books
ConcurrentBookIds == {<<"bk1">>, <<"bk2">>}

InitConcurrent ==
  InitWith(Calls, ConcurrentBlobs, ConcurrentBookIds) /\ rw = RwIdle /\ dx = DxIdle /\ db = DbEmpty

SpecConcurrent == InitConcurrent /\ [][Next]_vars

\* ----------------------------------------------------------- the handler

\* upload_content for request c, whose upload_id is c: detect_format and
\* extract are the actions of the call; what follows is the handler after
\* the await of extract

\* The rows of UploadedImage written for the upload
ImageRows(upload_id) ==
  SelectSeq(db.images, LAMBDA row : row.upload_id = upload_id)

\* extract(..).await? returned Err, or the format was Unknown: the handler
\* returns the error
Reject(c) ==
  /\ pc[c] = "done"
  /\ result[c].tag = "Err"
  /\ pc' = [pc EXCEPT ![c] = "responded"]
  /\ UNCHANGED <<bytes, book_id, format, opened, archive, idx, zipfile,
                 pending_images, image_url_map, images, html_parts, inflight,
                 result, cancelled, store, store_log, now, rw, dx, db>>

\* The insert running whatever extract returned
InsertUploadAnyResult(c) ==
  /\ pc[c] = "done"
  /\ \E ok \in BOOLEAN :
       IF ok
       THEN /\ db' = [db EXCEPT !.uploads = Append(@,
                       [id |-> c, book_id |-> book_id[c], format |-> format[c],
                        html_content |-> result[c].html_content])]
            /\ pc' = [pc EXCEPT ![c] = "insert_images"]
       ELSE /\ pc' = [pc EXCEPT ![c] = "responded"]
            /\ UNCHANGED db
  /\ UNCHANGED <<bytes, book_id, format, opened, archive, idx, zipfile,
                 pending_images, image_url_map, images, html_parts, inflight,
                 result, cancelled, store, store_log, now, rw, dx>>

\* INSERT INTO "ContentUpload" after extract returned Ok; the query may
\* fail, and the ? returns its error
InsertUpload(c) ==
  /\ pc[c] = "done"
  /\ result[c].tag = "Ok"
  /\ \E ok \in BOOLEAN :
       IF ok
       THEN /\ db' = [db EXCEPT !.uploads = Append(@,
                       [id |-> c, book_id |-> book_id[c], format |-> format[c],
                        html_content |-> result[c].html_content])]
            /\ pc' = [pc EXCEPT ![c] = "insert_images"]
       ELSE /\ pc' = [pc EXCEPT ![c] = "responded"]
            /\ UNCHANGED db
  /\ UNCHANGED <<bytes, book_id, format, opened, archive, idx, zipfile,
                 pending_images, image_url_map, images, html_parts, inflight,
                 result, cancelled, store, store_log, now, rw, dx>>

\* The body of the loop over extracted.images: INSERT INTO "UploadedImage";
\* the query may fail, and the ? returns its error
InsertImage(c) ==
  /\ pc[c] = "insert_images"
  /\ Len(ImageRows(c)) < Len(result[c].images)
  /\ LET img == result[c].images[Len(ImageRows(c)) + 1]
     IN \E ok \in BOOLEAN :
          IF ok
          THEN /\ db' = [db EXCEPT !.images = Append(@,
                          [upload_id |-> c, original_path |-> img.original_path,
                           cdn_url |-> img.cdn_url,
                           content_type |-> img.content_type,
                           size |-> img.size])]
               /\ UNCHANGED pc
          ELSE /\ pc' = [pc EXCEPT ![c] = "responded"]
               /\ UNCHANGED db
  /\ UNCHANGED <<bytes, book_id, format, opened, archive, idx, zipfile,
                 pending_images, image_url_map, images, html_parts, inflight,
                 result, cancelled, store, store_log, now, rw, dx>>

\* The end of the loop: the handler returns 201 Created
Respond(c) ==
  /\ pc[c] = "insert_images"
  /\ Len(ImageRows(c)) = Len(result[c].images)
  /\ pc' = [pc EXCEPT ![c] = "responded"]
  /\ UNCHANGED <<bytes, book_id, format, opened, archive, idx, zipfile,
                 pending_images, image_url_map, images, html_parts, inflight,
                 result, cancelled, store, store_log, now, rw, dx, db>>

NextHandler ==
  \/ Next
  \/ \E c \in Calls : Reject(c)
  \/ \E c \in Calls : InsertUpload(c)
  \/ \E c \in Calls : InsertImage(c)
  \/ \E c \in Calls : Respond(c)

SpecHandler == InitRead /\ [][NextHandler]_vars

\* ------------------------------------------ replace_image_urls on its own

\* The URL phase 2 stores for an image  path  uploaded at time  ts
UrlOf(book, path, ts) ==
  get_public_url(StorageKey(<<"content-images">>, book,
                            sanitize_filename(path, ts)))

\* The tokens of the markup strings
RwTokens ==
  { Text("<p>"),
    Ref("src", "dq", <<"a", "/", "x", ".png">>),
    Ref("src", "sq", <<"x", ".png">>),
    Ref("src", "dq", <<"..", "/", "img", "/", "x", ".png">>),
    Ref("src", "dq", <<"none", ".png">>),
    Ref("src", "dq", UrlOf(<<"bk1">>, <<"x", ".png">>, 1)),
    Ref("xlink:href", "sq", <<"a", "/", "x", ".png">>) }

RECURSIVE MarkupsOf(_)
MarkupsOf(n) ==
  IF n = 0 THEN {<<>>}
  ELSE {<<>>} \cup {<<t>> \o m : t \in RwTokens, m \in MarkupsOf(n - 1)}

\* The keys and the URLs of the maps: the paths and basenames of the images
\* a/x.png, x.png and 1_x.png, and the URLs of x.png and 1_x.png uploaded
\* at time 1
RwKeys == {<<"a", "/", "x", ".png">>, <<"x", ".png">>, <<"1", "_", "x", ".png">>}

RwUrls == {UrlOf(<<"bk1">>, <<"x", ".png">>, 1),
           UrlOf(<<"bk1">>, <<"1", "_", "x", ".png">>, 1)}

RwMaps == UNION {[K -> RwUrls] : K \in SUBSET RwKeys}

InitRewrite ==
  /\ InitCalls({})
  /\ \E content \in MarkupsOf(MaxMarkup), url_map \in RwMaps :
       rw = [pc |-> "in", content |-> content, url_map |-> url_map,
             once |-> <<>>, twice |-> <<>>]
  /\ dx = DxIdle /\ db = DbEmpty

\* rewrite(markup, map)
RewriteOnce ==
  /\ rw.pc = "in"
  /\ rw' = [rw EXCEPT !.pc = "once",
                      !.once = replace_image_urls(rw.content, rw.url_map)]
  /\ UNCHANGED <<call_vars, store, store_log, now, dx, db>>

\* rewrite(rewrite(markup, map), map)
RewriteTwice ==
  /\ rw.pc = "once"
  /\ rw' = [rw EXCEPT !.pc = "twice",
                      !.twice = replace_image_urls(rw.once, rw.url_map)]
  /\ UNCHANGED <<call_vars, store, store_log, now, dx, db>>

NextRewrite == RewriteOnce \/ RewriteTwice

SpecRewrite == InitRewrite /\ [][NextRewrite]_vars

\* -------------------------------------------- docx_xml_to_html on its own

\* The tokens of the document.xml texts
DxTokens ==
  { Xml("w:p", <<>>), Xml("/w:p", <<>>), Xml("w:b/", <<>>), Xml("w:i/", <<>>),
    Xml("w:t", <<"Hello">>), Xml("a:blip", <<"x">>), Xml("nl", <<"\n">>) }

RECURSIVE XmlsOf(_)
XmlsOf(n) ==
  IF n = 0 THEN {<<>>}
  ELSE {<<>>} \cup {<<t>> \o x : t \in DxTokens, x \in XmlsOf(n - 1)}

\* The maps: empty, and the map of a DOCX whose word/media/x.png was
\* uploaded at time 1
DxMaps ==
  { <<>>,
    MapInsert(<<>>, <<"word", "/", "media", "/", "x", ".png">>,
              UrlOf(<<"bk1">>, <<"word", "/", "media", "/", "x", ".png">>, 1)) }

InitDocx ==
  /\ InitCalls({})
  /\ rw = RwIdle
  /\ \E xml \in XmlsOf(MaxXml), url_map \in DxMaps :
       dx = [pc |-> "in", xml |-> xml, url_map |-> url_map, html |-> <<>>]
  /\ db = DbEmpty

\* docx_xml_to_html(xml, map), the map iterated in some order
ConvertXml ==
  /\ dx.pc = "in"
  /\ \E order \in Orders(DOMAIN dx.url_map) :
       dx' = [dx EXCEPT !.pc = "out",
                        !.html = docx_xml_to_html(dx.xml, dx.url_map, order)]
  /\ UNCHANGED <<call_vars, store, store_log, now, rw, db>>

NextDocx == ConvertXml

SpecDocx == InitDocx /\ [][NextDocx]_vars

\* ------------------------------------------- image anchors of a document

\* The tokens of the document.xml texts with image anchors
BlipTokens ==
  { Xml("w:p", <<>>), Xml("/w:p", <<>>), Xml("w:t", <<"Hello">>),
    Xml("a:blip", <<"y">>), Xml("a:blip", <<"media">>) }

RECURSIVE BlipXmlsOf(_)
BlipXmlsOf(n) ==
  IF n = 0 THEN {<<>>}
  ELSE {<<>>} \cup {<<t>> \o x : t \in BlipTokens, x \in BlipXmlsOf(n - 1)}

\* The maps of a DOCX whose word/media/x.png was uploaded at time 1, and of
\* one whose word/media/y.png was uploaded after it at time 1
BlipMaps ==
  LET one == MapInsert(<<>>, <<"word", "/", "media", "/", "x", ".png">>,
               UrlOf(<<"bk1">>, <<"word", "/", "media", "/", "x", ".png">>, 1))
  IN { one,
       MapInsert(one, <<"word", "/", "media", "/", "y", ".png">>,
         UrlOf(<<"bk1">>, <<"word", "/", "media", "/", "y", ".png">>, 1)) }

InitBlips ==
  /\ InitCalls({})
  /\ rw = RwIdle
  /\ \E xml \in BlipXmlsOf(MaxBlipXml), url_map \in BlipMaps :
       dx = [pc |-> "in", xml |-> xml, url_map |-> url_map, html |-> <<>>]
  /\ db = DbEmpty

SpecBlips == InitBlips /\ [][NextDocx]_vars

\* ------------------------------------------------------------- the claims

\* The requests of call c in the bucket's log, in order
LogOf(c) == SelectSeq(store_log, LAMBDA e : e.call = c)

\* Whether an upload of call c has failed
UploadFailed(c) == \E k \in 1..Len(LogOf(c)) : ~LogOf(c)[k].ok

\* C1: once an image upload of an extract call has failed, the call has
\* ended with the storage error and returns no ExtractedContent, however
\* many uploads of the call succeeded before.
C1_UploadFailureFailsExtract ==
  \A c \in Calls :
    UploadFailed(c) =>
      /\ pc[c] = "done"
      /\ result[c] = Err("Internal", "R2 upload failed")

\* C1 witness: an upload failed after an earlier upload of the same call
\* succeeded, and the call has returned.
C1_Witness ==
  \E c \in Calls :
    /\ Len(LogOf(c)) >= 2
    /\ LogOf(c)[1].ok
    /\ ~LogOf(c)[Len(LogOf(c))].ok
    /\ result[c].tag = "Err"

\* C2: once extract has returned the error of a failed upload, the bucket
\* holds none of the objects this extraction uploaded before the failure.
C2_NothingPersistedAfterFailure ==
  \A c \in Calls :
    (UploadFailed(c) /\ result[c].tag = "Err") =>
      \A k \in 1..Len(LogOf(c)) :
        LogOf(c)[k].ok => LogOf(c)[k].key \notin DOMAIN store

\* C3: two uploads of one extraction (two distinct images) never use the
\* same storage key, so none overwrites another.
C3_DistinctStorageKeys ==
  \A c \in Calls :
    \A i, j \in 1..Len(LogOf(c)) :
      i # j => LogOf(c)[i].key # LogOf(c)[j].key

\* Phase 2 of call c is over and every upload succeeded
Phase2Done(c) ==
  /\ pc[c] \in {"content", "document", "done"}
  /\ format[c] # "Unknown"
  /\ ~UploadFailed(c)

\* C4: after phase 2, for two images at different paths with one basename,
\* the basename key holds the URL of the one processed last and the
\* full-path key of each holds that image's own URL.
C4_BasenameCollisionKeys ==
  \A c \in Calls :
    Phase2Done(c) =>
      \A i, j \in 1..Len(images[c]) :
        LET a == images[c][i]
            b == images[c][j]
        IN (/\ i < j
            /\ a.original_path # b.original_path
            /\ Basename(a.original_path) = Basename(b.original_path)) =>
             /\ image_url_map[c][Basename(b.original_path)] = b.cdn_url
             /\ image_url_map[c][a.original_path] = a.cdn_url
             /\ image_url_map[c][b.original_path] = b.cdn_url

\* C5: in every state the map holds the full path and the basename of every
\* image uploaded so far, and no step removes a key from the map.
C5_MapHoldsPathAndBasename ==
  /\ [](\A c \in Calls : \A k \in 1..Len(images[c]) :
          /\ images[c][k].original_path \in DOMAIN image_url_map[c]
          /\ Basename(images[c][k].original_path) \in DOMAIN image_url_map[c])
  /\ [][\A c \in Calls :
          DOMAIN image_url_map[c] \subseteq DOMAIN image_url_map'[c]]_vars

\* C5 witness: two images with one basename are uploaded: the second
\* insertion overwrote the basename key.
C5_Witness ==
  \E c \in Calls :
    /\ Len(images[c]) = 2
    /\ images[c][1].original_path # images[c][2].original_path
    /\ Basename(images[c][1].original_path)
         = Basename(images[c][2].original_path)
    /\ image_url_map[c][Basename(images[c][1].original_path)]
         = images[c][2].cdn_url

\* The names of the members of the blob that are images to relocate, in
\* archive order
ImageMembers(c) ==
  SelectSeq(bytes[c].members, LAMBDA m : Qualifies(format[c], m.name))

\* C6: the images of a successful extraction are the qualifying members in
\* archive enumeration order.
C6_ImagesInArchiveOrder ==
  \A c \in Calls :
    result[c].tag = "Ok" =>
      /\ Len(result[c].images) = Len(ImageMembers(c))
      /\ \A k \in 1..Len(result[c].images) :
           result[c].images[k].original_path = ImageMembers(c)[k].name

\* C6 witness: a successful extraction of three images, the clock having
\* advanced between the uploads.
C6_Witness ==
  \E c \in Calls :
    /\ result[c].tag = "Ok"
    /\ Len(result[c].images) = 3
    /\ now > 1

\* C7: rewriting the output of rewrite again with the same map changes
\* nothing.
C7_RewriteIdempotent ==
  rw.pc = "twice" => rw.twice = rw.once

\* A src or xlink:href reference of the markup
IsReference(tok) == IsMatch(tok, "src") \/ IsMatch(tok, "xlink:href")

\* Neither the verbatim path of the reference nor its basename is a key
Unresolved(tok, url_map) ==
  /\ tok.path \notin DOMAIN url_map
  /\ Basename(tok.path) \notin DOMAIN url_map

\* C8: when no reference of the markup resolves in the map, rewrite returns
\* the markup unchanged.
C8_UnresolvedUnchanged ==
  (/\ rw.pc \in {"once", "twice"}
   /\ \A k \in 1..Len(rw.content) :
        IsReference(rw.content[k]) => Unresolved(rw.content[k], rw.url_map))
    => rw.once = rw.content

\* C8 witness: a markup of two references, a single-quoted one among them,
\* none resolving in a map that has keys, has been rewritten.
C8_Witness ==
  /\ rw.pc = "once"
  /\ rw.url_map # <<>>
  /\ Len(rw.content) = 2
  /\ \A k \in 1..Len(rw.content) :
       IsReference(rw.content[k]) /\ Unresolved(rw.content[k], rw.url_map)
  /\ \E k \in 1..Len(rw.content) : rw.content[k].q = "sq"

\* The image members a reference names: the one at that very path, or else
\* those with the same basename
NamedImages(c, path) ==
  LET imgs == {k \in 1..Len(ImageMembers(c)) : TRUE}
      exact == {k \in imgs : ImageMembers(c)[k].name = path}
  IN IF exact # {} THEN exact
     ELSE {k \in imgs : Basename(ImageMembers(c)[k].name) = Basename(path)}

\* C9: a successful EPUB extraction returns one ExtractedImage per image
\* member, and every src reference of a content file that names an image
\* member stands in html_content with that image's URL and not with the
\* original path.
C9_EpubReferencesRelocated ==
  \A c \in Calls :
    (format[c] = "Epub" /\ result[c].tag = "Ok") =>
      /\ Len(result[c].images) = Len(ImageMembers(c))
      /\ \A f \in 1..Len(bytes[c].members) :
           LET file == bytes[c].members[f]
               html == result[c].html_content
           IN is_content_file(file.name) =>
                \A t \in 1..Len(file.body) :
                  LET tok == file.body[t]
                      named == NamedImages(c, tok.path)
                  IN (IsMatch(tok, "src") /\ named # {}) =>
                       /\ \E k \in named : \E h \in 1..Len(html) :
                            html[h] = Ref("src", "dq",
                                          result[c].images[k].cdn_url)
                       /\ \A h \in 1..Len(html) : html[h] # tok

\* C10: for a blob of fewer than 4 bytes or without the ZIP signature,
\* detect_format answers Unknown and the archive is never opened.
C10_NotZipIsUnknown ==
  \A c \in Calls :
    (/\ pc[c] \notin {"idle", "start"}
     /\ \/ Len(bytes[c].magic) < 4
        \/ SubSeq(bytes[c].magic, 1, 4) # <<80, 75, 3, 4>>)
      => /\ format[c] = "Unknown"
         /\ opened[c] = 0
         /\ pc[c] = "done"

\* C10 witness: a blob that holds a readable EPUB archive behind a first
\* four bytes that are not the signature has been classified.
C10_Witness ==
  \E c \in Calls :
    /\ pc[c] = "done"
    /\ Len(bytes[c].magic) = 4
    /\ bytes[c].magic # <<80, 75, 3, 4>>
    /\ bytes[c].zip
    /\ \E k \in 1..Len(bytes[c].members) :
         bytes[c].members[k].name = <<"mimetype">>

\* C11: an extract call on bytes that detect_format classifies as Unknown
\* has, as soon as it has run, ended with the unsupported-format error; it
\* entered neither pipeline (the archive was opened by detect_format at
\* most, no member was looked at, nothing was collected or produced) and
\* no request of the call reached the object store.
C11_UnknownIsUnsupported ==
  \A c \in Calls :
    (pc[c] \notin {"idle", "start"}
       /\ detect_format(bytes[c]).format = "Unknown")
    => /\ pc[c] = "done"
       /\ result[c] = Err("BadRequest", "Unsupported file format")
       /\ opened[c] <= 1
       /\ archive[c] = <<>> /\ idx[c] = 0 /\ zipfile[c] = 0
       /\ pending_images[c] = <<>> /\ inflight[c] = <<>>
       /\ image_url_map[c] = <<>> /\ images[c] = <<>>
       /\ html_parts[c] = <<>>
       /\ LogOf(c) = <<>>

\* C11 witness: a call has ended on a readable ZIP archive with the
\* signature that holds an image and a content file but no marker.
C11_Witness ==
  \E c \in Calls :
    /\ pc[c] = "done"
    /\ bytes[c].magic = ZipMagic /\ bytes[c].zip
    /\ detect_format(bytes[c]).format = "Unknown"
    /\ \E k \in 1..Len(bytes[c].members) :
         is_image_file(bytes[c].members[k].name)
    /\ \E k \in 1..Len(bytes[c].members) :
         is_content_file(bytes[c].members[k].name)

\* Whether the pipeline of call c decompresses or decodes the member: a
\* qualifying image, a content file of an EPUB, word/document.xml of a DOCX
PipelineReads(c, file) ==
  \/ Qualifies(format[c], file.name)
  \/ format[c] = "Epub" /\ is_content_file(file.name)
  \/ format[c] = "Docx" /\ file.name = <<"word", "/", "document.xml">>

\* The read-failure errors
ReadFailures ==
  { Err("Internal", "Failed to read archive"),
    Err("Internal", "Failed to read image"),
    Err("Internal", "Failed to read content") }

\* C12: a call that has ended on an EPUB or a DOCX holding a member that
\* the pipeline reads and that cannot be decompressed or decoded returns no
\* ExtractedContent, and it has ended in a read-failure error unless an
\* upload failed before the member was read.
C12_UnreadableMemberFails ==
  \A c \in Calls :
    (pc[c] = "done" /\ format[c] # "Unknown"
       /\ \E k \in 1..Len(bytes[c].members) :
            /\ bytes[c].members[k].bad # "none"
            /\ PipelineReads(c, bytes[c].members[k]))
    => /\ result[c].tag # "Ok"
       /\ ~UploadFailed(c) => result[c] \in ReadFailures

\* Whether a lowercased member name carries the EPUB marker, the DOCX marker
EpubMarker(name) ==
  \/ name = <<"mimetype">>
  \/ \E k \in 1..(Len(name) - 2) :
       SubSeq(name, k, k + 2) = <<"meta-inf", "/", "container.xml">>

DocxMarker(name) ==
  \/ \E k \in 1..Len(name) : name[k] = "[content_types].xml"
  \/ \E k \in 1..(Len(name) - 2) :
       SubSeq(name, k, k + 2) = <<"word", "/", "document.xml">>

\* The verdict fixed by the first of the members  S  that carries a marker
VerdictOfFirst(members, S) ==
  LET M == {k \in S : \/ EpubMarker(to_lowercase(members[k].name))
                       \/ DocxMarker(to_lowercase(members[k].name))}
      first == CHOOSE k \in M : \A j \in M : k <= j
  IN IF M = {} THEN "Unknown"
     ELSE IF EpubMarker(to_lowercase(members[first].name)) THEN "Epub"
     ELSE "Docx"

\* C16 as stated: for bytes that begin with the signature, the verdict is
\* Unknown when the archive does not open, and otherwise it is fixed by the
\* first member in archive order that carries a marker (Epub marker before
\* Docx marker on that member), Unknown when no member carries one.
C16_FirstMarkerDecides ==
  \A c \in Calls :
    (pc[c] \notin {"idle", "start"} /\ bytes[c].magic = ZipMagic)
    => format[c] =
         IF ~bytes[c].zip THEN "Unknown"
         ELSE VerdictOfFirst(bytes[c].members, 1..Len(bytes[c].members))

\* C16 amended: the same, over the members that by_index returns; a member
\* that cannot be opened is passed over, marker name or not.
C16_FirstOpenableMarkerDecides ==
  \A c \in Calls :
    (pc[c] \notin {"idle", "start"} /\ bytes[c].magic = ZipMagic)
    => format[c] =
         IF ~bytes[c].zip THEN "Unknown"
         ELSE VerdictOfFirst(bytes[c].members,
                             {k \in 1..Len(bytes[c].members) :
                                bytes[c].members[k].bad # "index"})

\* C16 witness: a call has classified an archive whose first marker member
\* cannot be opened and is followed by a marker member of the other format.
C16_Witness ==
  \E c \in Calls :
    /\ pc[c] \notin {"idle", "start"}
    /\ bytes[c].zip
    /\ \E i, j \in 1..Len(bytes[c].members) :
         /\ i < j
         /\ bytes[c].members[i].bad = "index"
         /\ EpubMarker(to_lowercase(bytes[c].members[i].name))
         /\ bytes[c].members[j].bad # "index"
         /\ DocxMarker(to_lowercase(bytes[c].members[j].name))
         /\ \A k \in 1..(j - 1) :
              ~DocxMarker(to_lowercase(bytes[c].members[k].name))
         /\ \A k \in 1..(j - 1) :
              k # i => ~EpubMarker(to_lowercase(bytes[c].members[k].name))

\* Whether  tail  is the text of  name  after its last '/', every space
\* replaced by an underscore
IsUnderscoredBasename(tail, name) ==
  LET off == Len(name) - Len(tail)
  IN /\ off >= 0
     /\ off > 0 => name[off] = "/"
     /\ \A k \in 1..Len(tail) :
          /\ name[off + k] # "/"
          /\ tail[k] = IF name[off + k] = " " THEN "_" ELSE name[off + k]

\* Whether  key  is content-images/{ns}/{ts}_{underscored basename of name}
\* for a clock reading ts that has occurred
IsNamespacedKey(key, ns, name) ==
  LET prefix == <<"content-images", "/">> \o ns \o <<"/">>
      n == Len(prefix)
  IN /\ Len(key) >= n + 2
     /\ SubSeq(key, 1, n) = prefix
     /\ \E ts \in 1..now : key[n + 1] = ToString(ts)
     /\ key[n + 2] = "_"
     /\ IsUnderscoredBasename(SubSeq(key, n + 3, Len(key)), name)

\* C13: every upload an extract call has issued, awaited or answered, uses
\* the key content-images/{asset_namespace}/{timestamp}_{basename with
\* spaces replaced by underscores} of the image uploaded, asset_namespace
\* being the identifier passed to that call.
C13_KeysInOwnNamespace ==
  /\ \A k \in 1..Len(store_log) :
       IsNamespacedKey(store_log[k].key, book_id[store_log[k].call],
                       store_log[k].name)
  /\ \A c \in Calls :
       inflight[c] # <<>> =>
         IsNamespacedKey(inflight[c][1].key, book_id[c],
                         Head(pending_images[c]).name)

\* C13 witness: an image in a folder whose name holds a space has been
\* stored at the second clock reading.
C13_Witness ==
  \E k \in 1..Len(store_log) :
    /\ store_log[k].ok
    /\ \E j \in 1..Len(store_log[k].name) : store_log[k].name[j] = " "
    /\ \E j \in 1..Len(store_log[k].name) : store_log[k].name[j] = "/"
    /\ \E j \in 1..Len(store_log[k].key) : store_log[k].key[j] = "2"

\* C17: phase 1 is over before phase 2 starts. While a call is in its upload
\* loop no ZipFile is held and the archive borrow is released, and the
\* images uploaded so far followed by the images still to upload are all
\* the qualifying members of the archive, in archive order; a request is in
\* flight only at the await of the upload loop; and the object store has
\* seen no request of a call that is still in phase 1.
C17_Phase1BeforePhase2 ==
  \A c \in Calls :
    /\ pc[c] \in {"upload", "await"} =>
         LET members == ImageMembers(c)
         IN /\ zipfile[c] = 0
            /\ archive[c] = <<>>
            /\ Len(images[c]) + Len(pending_images[c]) = Len(members)
            /\ \A k \in 1..Len(members) :
                 members[k].name =
                   IF k <= Len(images[c])
                   THEN images[c][k].original_path
                   ELSE pending_images[c][k - Len(images[c])].name
            /\ \A k \in 1..Len(pending_images[c]) :
                 pending_images[c][k].buffer
                   = members[Len(images[c]) + k].body
    /\ inflight[c] # <<>> => pc[c] = "await"
    /\ pc[c] \in {"start", "collect"} =>
         LogOf(c) = <<>> /\ inflight[c] = <<>>

\* C17 witness: the first upload of an archive that holds an image after a
\* member that is no image is in flight.
C17_Witness ==
  \E c \in Calls :
    /\ pc[c] = "await"
    /\ images[c] = <<>>
    /\ Len(pending_images[c]) = 2
    /\ \E i, j \in 1..Len(bytes[c].members) :
         /\ i < j
         /\ ~Qualifies(format[c], bytes[c].members[i].name)
         /\ Qualifies(format[c], bytes[c].members[j].name)
         /\ \E h \in 1..(i - 1) :
              Qualifies(format[c], bytes[c].members[h].name)

\* C18: there is no retry. The k-th request of a call is for the k-th
\* qualifying member of its archive, so each collected image is sent at
\* most once; only the last request of a call can have failed; and once a
\* request has failed the call has ended with that error and has no
\* request in flight.
C18_NoRetry ==
  \A c \in Calls :
    LET log == LogOf(c)
        members == ImageMembers(c)
    IN /\ Len(log) <= Len(members)
       /\ \A k \in 1..Len(log) :
            /\ log[k].name = members[k].name
            /\ k < Len(log) => log[k].ok
       /\ inflight[c] # <<>> =>
            /\ Len(log) < Len(members)
            /\ Head(pending_images[c]).name = members[Len(log) + 1].name
       /\ (\E k \in 1..Len(log) : ~log[k].ok) =>
            /\ pc[c] = "done"
            /\ inflight[c] = <<>>
            /\ result[c] = Err("Internal", "R2 upload failed")

\* C18 witness: the second of three uploads has failed.
C18_Witness ==
  \E c \in Calls :
    /\ Len(LogOf(c)) = 2
    /\ LogOf(c)[1].ok /\ ~LogOf(c)[2].ok
    /\ Len(pending_images[c]) = 2
    /\ pc[c] = "done"

\* C15: a call cancelled while an upload was in flight stands still from
\* then on: it has no request in flight and issues none (its requests at
\* the bucket are those of the images it recorded, and at most the one
\* that was under way), the images it had not sent stay unsent, and the
\* caller has received nothing from it, neither a complete nor a partly
\* filled ExtractedContent.
C15_CancelStopsUploads ==
  \A c \in Calls :
    cancelled[c] =>
      /\ pc[c] = "cancelled"
      /\ inflight[c] = <<>>
      /\ result[c] = NoResult
      /\ pending_images[c] # <<>>
      /\ Len(images[c]) + Len(pending_images[c]) = Len(ImageMembers(c))
      /\ Len(LogOf(c)) \in {Len(images[c]), Len(images[c]) + 1}

\* C15 witness: a call has been cancelled during the first upload of two,
\* and the request did not reach the bucket.
C15_Witness ==
  \E c \in Calls :
    /\ cancelled[c]
    /\ Len(pending_images[c]) = 2
    /\ LogOf(c) = <<>>

\* The URLs of the uploads of call c that the bucket has stored
OwnUrls(c) ==
  {get_public_url(LogOf(c)[k].key) :
     k \in {j \in 1..Len(LogOf(c)) : LogOf(c)[j].ok}}

\* The paths of the images of the archive of call c, and their basenames
OwnPaths(c) ==
  {ImageMembers(c)[k].name : k \in 1..Len(ImageMembers(c))}
  \cup {Basename(ImageMembers(c)[k].name) : k \in 1..Len(ImageMembers(c))}

\* C19: two interleaved extract calls are self-contained. The map of each
\* call has only keys from its own archive and URLs of its own uploads, its
\* images are members of its own archive at URLs of its own uploads, every
\* CDN URL in its html_content is one of its own uploads, and no stored
\* upload of one call is written to a key that holds, or comes to hold, an
\* object stored by the other call.
C19_CallsSelfContained ==
  /\ \A c \in Calls :
       /\ DOMAIN image_url_map[c] \subseteq OwnPaths(c)
       /\ \A p \in DOMAIN image_url_map[c] :
            image_url_map[c][p] \in OwnUrls(c)
       /\ \A k \in 1..Len(images[c]) :
            /\ images[c][k].original_path \in OwnPaths(c)
            /\ images[c][k].cdn_url \in OwnUrls(c)
       /\ \A k \in 1..Len(result[c].html_content) :
            LET tok == result[c].html_content[k]
            IN (IsReference(tok) /\ starts_with(tok.path, CdnBase))
               => tok.path \in OwnUrls(c)
  /\ \A i, j \in 1..Len(store_log) :
       (/\ store_log[i].call # store_log[j].call
        /\ store_log[i].ok /\ store_log[j].ok)
       => store_log[i].key # store_log[j].key

\* Whether a document.xml is a sequence of paragraphs, each opened by <w:p>
\* and closed by </w:p>, with its flags, runs and blips inside paragraphs
RECURSIVE WellFormed(_, _)
WellFormed(xml, inside) ==
  IF xml = <<>> THEN ~inside
  ELSE LET t == Head(xml).t
       IN IF t = "w:p" THEN ~inside /\ WellFormed(Tail(xml), TRUE)
          ELSE IF t = "/w:p" THEN inside /\ WellFormed(Tail(xml), FALSE)
          ELSE IF t = "nl" THEN WellFormed(Tail(xml), inside)
          ELSE inside /\ WellFormed(Tail(xml), inside)

\* The contents of the paragraphs of a well-formed document.xml, in order
RECURSIVE DocParagraphs(_)
DocParagraphs(xml) ==
  IF xml = <<>> THEN <<>>
  ELSE IF Head(xml).t # "w:p" THEN DocParagraphs(Tail(xml))
  ELSE LET C == {j \in 2..Len(xml) : xml[j].t = "/w:p"}
           end == CHOOSE j \in C : \A m \in C : j <= m
       IN <<SubSeq(xml, 2, end - 1)>>
          \o DocParagraphs(SubSeq(xml, end + 1, Len(xml)))

\* The text runs of a paragraph concatenated in document order
RECURSIVE ParagraphText(_)
ParagraphText(para) ==
  IF para = <<>> THEN <<>>
  ELSE IF Head(para).t = "w:t"
  THEN [k \in 1..Len(Head(para).v) |-> Text(Head(para).v[k])]
       \o ParagraphText(Tail(para))
  ELSE ParagraphText(Tail(para))

\* The elements of an HTML text, each up to and with its closing </p>
RECURSIVE Elements(_)
Elements(html) ==
  IF html = <<>> THEN <<>>
  ELSE LET C == {j \in 1..Len(html) : html[j] = Text("</p>\n")}
           end == CHOOSE j \in C : \A m \in C : j <= m
       IN IF C = {} THEN <<html>>
          ELSE <<SubSeq(html, 1, end)>>
               \o Elements(SubSeq(html, end + 1, Len(html)))

\* <p>, the wrappers of the flags,  inner , and the closing tags
Wrapped(inner, bold, italic) ==
  <<Text("<p>")>>
  \o (IF bold THEN <<Text("<strong>")>> ELSE <<>>)
  \o (IF italic THEN <<Text("<em>")>> ELSE <<>>)
  \o inner
  \o (IF italic THEN <<Text("</em>")>> ELSE <<>>)
  \o (IF bold THEN <<Text("</strong>")>> ELSE <<>>)
  \o <<Text("</p>\n")>>

\* C14: for every paragraph of a document.xml whose text runs, concatenated
\* in document order, give a non-empty T, the element emitted for it is T
\* in <p>, wrapped in <strong> when the bold flag occurs in the paragraph
\* and in <em> (inside <strong>) when the italic flag occurs.
C14_ParagraphFormatting ==
  (dx.pc = "out" /\ WellFormed(dx.xml, FALSE)) =>
    LET paras == DocParagraphs(dx.xml)
        elems == Elements(dx.html)
    IN \A k \in 1..Len(paras) :
         ParagraphText(paras[k]) # <<>> =>
           /\ k <= Len(elems)
           /\ elems[k] =
                Wrapped(ParagraphText(paras[k]),
                        \E j \in 1..Len(paras[k]) : paras[k][j].t = "w:b/",
                        \E j \in 1..Len(paras[k]) : paras[k][j].t = "w:i/")

\* C20: rewrite looks the verbatim path up first. Every reference of the
\* markup whose full path is a key of the map stands in the output as that
\* attribute with that key's URL, whatever its basename is mapped to.
C20_VerbatimPathFirst ==
  rw.pc \in {"once", "twice"} =>
    \A k \in 1..Len(rw.content) :
      (IsReference(rw.content[k]) /\ rw.content[k].path \in DOMAIN rw.url_map)
      => rw.once[k] = Ref(rw.content[k].attr, "dq",
                          rw.url_map[rw.content[k].path])

ExpectedImageNames(c) ==
  {bytes[c].members[k].name : k \in
     {j \in 1..Len(bytes[c].members) :
        LET name == bytes[c].members[j].name
        IN /\ LowerAtom(name[Len(name)])
                \in {".jpg", ".jpeg", ".png", ".gif", ".webp", ".svg"}
           /\ format[c] = "Docx" =>
                (Len(name) > 4 /\ name[1] = "word" /\ name[2] = "/"
                               /\ name[3] = "media" /\ name[4] = "/")}}

\* C22: the members collected and uploaded are exactly the image members
\* (for a DOCX those under word/media/). In the upload loop the images
\* recorded and those still to send are these members; every request at
\* the bucket is for one of them; and a successful extraction has sent
\* every one of them.
C22_ExactlyImageMembers ==
  \A c \in Calls :
    LET log == LogOf(c)
        expected == ExpectedImageNames(c)
    IN /\ pc[c] \in {"upload", "await"} =>
            {images[c][k].original_path : k \in 1..Len(images[c])}
            \cup {pending_images[c][k].name : k \in 1..Len(pending_images[c])}
              = expected
       /\ \A k \in 1..Len(log) : log[k].name \in expected
       /\ result[c].tag = "Ok" =>
            {log[k].name : k \in 1..Len(log)} = expected

\* C22 witness: a DOCX holding an image under word/media/ and an image
\* outside it has been extracted.
C22_Witness ==
  \E c \in Calls :
    /\ result[c].tag = "Ok"
    /\ format[c] = "Docx"
    /\ \E i, j \in 1..Len(bytes[c].members) :
         /\ is_image_file(bytes[c].members[i].name)
         /\ starts_with(bytes[c].members[i].name, <<"word", "/", "media", "/">>)
         /\ is_image_file(bytes[c].members[j].name)
         /\ ~starts_with(bytes[c].members[j].name, <<"word", "/", "media", "/">>)

\* Whether a member name is a content file: the last part of the lowercased
\* name is .html, .xhtml or .htm and no part of it is toc or nav
IsContentName(name) ==
  /\ LowerAtom(name[Len(name)]) \in {".html", ".xhtml", ".htm"}
  /\ \A k \in 1..Len(name) : LowerAtom(name[k]) \notin {"toc", "nav"}

\* The parts in order, each but the last followed by one separator
RECURSIVE Separated(_, _)
Separated(parts, sep) ==
  IF parts = <<>> THEN <<>>
  ELSE IF Len(parts) = 1 THEN parts[1]
  ELSE parts[1] \o <<sep>> \o Separated(Tail(parts), sep)

\* C23: the html_content of a successful EPUB extraction is the rewritten
\* markup of its content files in archive order, one Chapter Break between
\* each adjacent pair and none before the first or after the last, n - 1
\* separators for n content files; the other members contribute nothing.
C23_ChaptersJoined ==
  \A c \in Calls :
    (result[c].tag = "Ok" /\ format[c] = "Epub") =>
      LET files == SelectSeq(bytes[c].members,
                             LAMBDA m : IsContentName(m.name))
          parts == [k \in 1..Len(files) |->
                      replace_image_urls(files[k].body, image_url_map[c])]
          sep == Text("\n\n<!-- Chapter Break -->\n\n")
          html == result[c].html_content
      IN /\ html = Separated(parts, sep)
         /\ Cardinality({k \in 1..Len(html) : html[k] = sep})
              = IF Len(files) = 0 THEN 0 ELSE Len(files) - 1

\* C23 witness: an EPUB with an image, two content files and an excluded
\* TOC file has been extracted.
C23_Witness ==
  \E c \in Calls :
    /\ result[c].tag = "Ok" /\ format[c] = "Epub"
    /\ Len(images[c]) = 1
    /\ Len(SelectSeq(bytes[c].members, LAMBDA m : IsContentName(m.name))) = 2
    /\ \E k \in 1..Len(bytes[c].members) :
         bytes[c].members[k].name = <<"TOC", ".html">>

\* The paragraph units found in a document.xml, scanning from token i: an
\* opening tag and what follows it up to the first closing tag, when no
\* line break comes before that closing tag; the scan goes on after the
\* closing tag, or after the opening tag when it opens no unit
RECURSIVE FoundParagraphs(_, _)
FoundParagraphs(xml, i) ==
  IF i > Len(xml) THEN <<>>
  ELSE IF xml[i].t \notin {"w:p", "w:pPr"} THEN FoundParagraphs(xml, i + 1)
  ELSE LET S == {j \in (i + 1)..Len(xml) : xml[j].t \in {"/w:p", "nl"}}
           stop == CHOOSE j \in S : \A m \in S : j <= m
       IN IF S = {} THEN FoundParagraphs(xml, i + 1)
          ELSE IF xml[stop].t = "nl" THEN FoundParagraphs(xml, i + 1)
          ELSE <<SubSeq(xml, i + 1, stop - 1)>> \o FoundParagraphs(xml, stop + 1)

\* Whether the relationship id matches a key of the map by containment
BlipResolves(rel_id, url_map) ==
  \E key \in DOMAIN url_map :
    \/ \E k \in 0..(Len(key) - Len(rel_id)) :
         SubSeq(key, k + 1, k + Len(rel_id)) = rel_id
    \/ LET base == Basename(key)
       IN \E k \in 0..(Len(rel_id) - Len(base)) :
            SubSeq(rel_id, k + 1, k + Len(base)) = base

\* Whether a paragraph has neither text nor a resolved image
IsEmptyParagraph(para, url_map) ==
  \A k \in 1..Len(para) :
    /\ para[k].t = "w:t" => para[k].v = <<>>
    /\ para[k].t = "a:blip" => ~BlipResolves(para[k].v, url_map)

\* C24: the converter emits one <p> element per paragraph unit found, in
\* document order. The output holds as many <p> as units were found, the
\* k-th element is that of the k-th unit, and the element of a unit with
\* no text and no resolved image is the empty <p></p>, whatever flags
\* occur in the unit.
C24_OneElementPerParagraph ==
  dx.pc = "out" =>
    LET paras == FoundParagraphs(dx.xml, 1)
        elems == Elements(dx.html)
    IN /\ Cardinality({k \in 1..Len(dx.html) : dx.html[k] = Text("<p>")})
            = Len(paras)
       /\ paras # <<>> =>
            /\ Len(elems) = Len(paras)
            /\ \A k \in 1..Len(paras) :
                 /\ elems[k][1] = Text("<p>")
                 /\ elems[k][Len(elems[k])] = Text("</p>\n")
                 /\ IsEmptyParagraph(paras[k], dx.url_map)
                      <=> elems[k] = <<Text("<p>"), Text("</p>\n")>>
                 /\ ParagraphText(paras[k])
                      = SelectSeq(elems[k], LAMBDA tok :
                          /\ tok.attr = "text"
                          /\ tok.path \notin
                               {<<"<p>">>, <<"</p>\n">>, <<"<strong>">>,
                                <<"</strong>">>, <<"<em>">>, <<"</em>">>,
                                <<"<img">>, <<"alt=image/>">>})

\* C24 witness: a document of two units, the first with a flag and no text
\* or image, has been converted.
C24_Witness ==
  /\ dx.pc = "out"
  /\ LET paras == FoundParagraphs(dx.xml, 1)
     IN /\ Len(paras) = 2
        /\ IsEmptyParagraph(paras[1], dx.url_map)
        /\ \E k \in 1..Len(paras[1]) : paras[1][k].t \in {"w:b/", "w:i/"}

\* What is left of a document.xml without its tags: the texts of the runs,
\* the line breaks and the text outside elements
RECURSIVE Stripped(_)
Stripped(xml) ==
  IF xml = <<>> THEN <<>>
  ELSE (IF Head(xml).t \in {"w:p", "w:pPr", "/w:p", "w:b/", "w:i/", "a:blip"}
        THEN <<>>
        ELSE [k \in 1..Len(Head(xml).v) |-> Text(Head(xml).v[k])])
       \o Stripped(Tail(xml))

\* C25: the converter takes the tag-stripping fallback exactly when no
\* paragraph unit is found. With no unit the output is the document
\* without its tags; with a unit, empty or not, the output is made of the
\* emitted <p> elements only: it begins with <p>, ends with the closing of
\* the last element and each closing is followed by the next <p>.
C25_FallbackIffNoParagraph ==
  dx.pc = "out" =>
    LET paras == FoundParagraphs(dx.xml, 1)
        html == dx.html
    IN IF paras = <<>>
       THEN html = Stripped(dx.xml)
       ELSE /\ html # <<>>
            /\ html[1] = Text("<p>")
            /\ html[Len(html)] = Text("</p>\n")
            /\ \A k \in 1..(Len(html) - 1) :
                 html[k] = Text("</p>\n") <=> html[k + 1] = Text("<p>")
            /\ Cardinality({k \in 1..Len(html) : html[k] = Text("<p>")})
                 = Len(paras)

\* C25 witness: a document whose only paragraph unit is empty and that has
\* run text outside the unit has been converted.
C25_Witness ==
  /\ dx.pc = "out"
  /\ Len(FoundParagraphs(dx.xml, 1)) = 1
  /\ IsEmptyParagraph(FoundParagraphs(dx.xml, 1)[1], dx.url_map)
  /\ Stripped(dx.xml) # <<>>

\* The URLs stored under the keys that match the relationship id: the key
\* contains the id, or the id contains the key's basename
MatchingUrls(rel_id, url_map) ==
  {url_map[key] : key \in
     {k \in DOMAIN url_map :
        \/ \E i \in 0..(Len(k) - Len(rel_id)) :
             SubSeq(k, i + 1, i + Len(rel_id)) = rel_id
        \/ \E i \in 0..(Len(rel_id) - Len(Basename(k))) :
             SubSeq(rel_id, i + 1, i + Len(Basename(k))) = Basename(k)}}

\* C26: every image anchor of a paragraph emits at most one <img>. The src
\* attributes of the element of a paragraph are, in order, one for each
\* anchor of the paragraph whose id matches a key, each the URL stored
\* under a matching key; an anchor matching no key adds nothing, and the
\* element of its paragraph is emitted all the same.
C26_OneImgPerAnchor ==
  dx.pc = "out" =>
    LET paras == FoundParagraphs(dx.xml, 1)
        elems == Elements(dx.html)
    IN paras # <<>> =>
         /\ Len(elems) = Len(paras)
         /\ \A k \in 1..Len(paras) :
              LET anchors == SelectSeq(paras[k], LAMBDA x :
                               /\ x.t = "a:blip"
                               /\ MatchingUrls(x.v, dx.url_map) # {})
                  srcs == SelectSeq(elems[k], LAMBDA tok : tok.attr = "src")
              IN /\ Len(srcs) = Len(anchors)
                 /\ \A i \in 1..Len(srcs) :
                      /\ srcs[i].q = "dq"
                      /\ srcs[i].path \in MatchingUrls(anchors[i].v, dx.url_map)
                 /\ Cardinality({i \in 1..Len(elems[k]) :
                                   elems[k][i] = Text("<img")}) = Len(srcs)

\* C26 witness: a paragraph with an anchor that matches a key and an
\* anchor that matches no key has been converted.
C26_Witness ==
  /\ dx.pc = "out"
  /\ \E k \in 1..Len(FoundParagraphs(dx.xml, 1)) :
       LET para == FoundParagraphs(dx.xml, 1)[k]
       IN /\ \E i \in 1..Len(para) :
               /\ para[i].t = "a:blip"
               /\ MatchingUrls(para[i].v, dx.url_map) = {}
          /\ \E i \in 1..Len(para) :
               /\ para[i].t = "a:blip"
               /\ MatchingUrls(para[i].v, dx.url_map) # {}

\* C27: the converter is deterministic. The HTML of a conversion is the
\* HTML of the conversion of the same document.xml with the same map
\* contents whatever order the map is iterated in.
C27_ConversionDeterministic ==
  dx.pc = "out" =>
    \A order \in Orders(DOMAIN dx.url_map) :
      dx.html = docx_xml_to_html(dx.xml, dx.url_map, order)

\* Whether phase 1 of call c fails: its EPUB or DOCX holds a member that
\* by_index does not return, or an image to collect whose bytes cannot be
\* read
Phase1Fails(c) ==
  /\ format[c] # "Unknown"
  /\ \E k \in 1..Len(bytes[c].members) :
       LET file == bytes[c].members[k]
       IN \/ file.bad = "index"
          \/ file.bad = "read" /\ file.name \in ExpectedImageNames(c)

\* C28: a call whose phase 1 fails never issues an upload, whatever images
\* it collected before the failing member: it has no request in flight,
\* the bucket has seen no request of it and holds no object, and once the
\* call has ended it has returned the read error.
C28_Phase1FailureNoUpload ==
  \A c \in Calls :
    Phase1Fails(c) =>
      /\ LogOf(c) = <<>>
      /\ inflight[c] = <<>>
      /\ store = <<>>
      /\ pc[c] \in {"collect", "done"}
      /\ pc[c] = "done" =>
           result[c] \in {Err("Internal", "Failed to read archive"),
                          Err("Internal", "Failed to read image")}

\* C28 witness: a call has ended on an image that cannot be read, having
\* collected a readable image before it.
C28_Witness ==
  \E c \in Calls :
    /\ pc[c] = "done"
    /\ result[c] = Err("Internal", "Failed to read image")
    /\ Len(pending_images[c]) = 1

\* C29: on a successful extraction there is one ExtractedImage per upload
\* issued, in the order of the uploads; each has the archive path of the
\* member uploaded, the URL the object store returned for that upload and
\* the byte length of the payload sent; and the values of the path-to-URL
\* map are exactly these URLs.
C29_ImagesMatchUploads ==
  \A c \in Calls :
    result[c].tag = "Ok" =>
      LET log == LogOf(c)
          imgs == result[c].images
      IN /\ Len(imgs) = Len(log)
         /\ \A k \in 1..Len(imgs) :
              /\ imgs[k].original_path = log[k].name
              /\ \E j \in 1..Len(bytes[c].members) :
                   /\ bytes[c].members[j].name = imgs[k].original_path
                   /\ Len(bytes[c].members[j].body) = imgs[k].size
              /\ imgs[k].cdn_url = <<"https://cdn", "/">> \o log[k].key
              /\ imgs[k].size = log[k].size
         /\ {image_url_map[c][p] : p \in DOMAIN image_url_map[c]}
              = {imgs[k].cdn_url : k \in 1..Len(imgs)}

\* C30: nothing is written to the database before extraction has
\* succeeded. While a request has not come back from extract with Ok, and
\* for good when its format is Unknown or its extraction failed, neither
\* table has a row of it; a ContentUpload row holds the html_content that
\* extract returned; and the UploadedImage rows of a request come after
\* its ContentUpload row and are the first images extract returned, in
\* order.
C30_NoRowsBeforeSuccess ==
  \A c \in Calls :
    LET uploads == SelectSeq(db.uploads, LAMBDA row : row.id = c)
        rows == SelectSeq(db.images, LAMBDA row : row.upload_id = c)
    IN /\ (result[c].tag # "Ok" \/ detect_format(bytes[c]).format = "Unknown")
            => uploads = <<>> /\ rows = <<>>
       /\ Len(uploads) <= 1
       /\ uploads # <<>> =>
            /\ uploads[1].html_content = result[c].html_content
            /\ pc[c] \in {"insert_images", "responded"}
       /\ rows # <<>> => uploads # <<>>
       /\ Len(rows) <= Len(result[c].images)
       /\ \A k \in 1..Len(rows) :
            /\ rows[k].original_path = result[c].images[k].original_path
            /\ rows[k].cdn_url = result[c].images[k].cdn_url

\* C30 witness: a request whose extraction returned two images has both
\* rows written after its ContentUpload row.
C30_Witness ==
  \E c \in Calls :
    /\ pc[c] = "responded"
    /\ Len(db.uploads) = 1
    /\ Len(db.images) = 2

====
